---- MODULE Spec2Model ----
(***************************************************************************)
(* AI Portrait Studio: the upload / validate / encode / generate session   *)
(* of src/App.tsx, with the validator of src/components/ImageUploader.tsx  *)
(* and the generation client of src/services/geminiService.ts.             *)
(*                                                                         *)
(* A JavaScript string is a record [chars |-> <<...>>] over one-character  *)
(* (or one-token) strings, a File is a record [name, type, size], and      *)
(* null is the record NULL, so that every nullable field holds records.    *)
(***************************************************************************)
EXTENDS Integers, Sequences, FiniteSets, Bags, TLC

VARIABLES
    originalFile,          \* App.tsx:23  File | null
    originalImagePreview,  \* App.tsx:24  string | null
    generatedImage,        \* App.tsx:25  string | null
    isLoading,             \* App.tsx:26  boolean
    error,                 \* App.tsx:27  string | null
    loadingMessage,        \* App.tsx:28  string
    selectedStyle,         \* App.tsx:29  an element of STYLES
    customPrompt,          \* App.tsx:30  string
    timer,                 \* App.tsx:33-42 the interval of the effect and its messageIndex
    reads,                 \* handleImageSelect invocations suspended at App.tsx:48 (a bag of files)
    gens,                  \* handleGenerate invocations suspended at App.tsx:65 or :67,
                           \* the latter with the arguments of their generatePortrait call
    triggers,              \* number of handleGenerate invocations so far
    calls,                 \* number of generatePortrait invocations so far
    download,              \* the artifact produced by the latest handleDownload
    lastEvent              \* the handler or continuation that ran last

vars == <<originalFile, originalImagePreview, generatedImage, isLoading, error,
          loadingMessage, selectedStyle, customPrompt, timer, reads, gens,
          triggers, calls, download, lastEvent>>

session == <<originalFile, originalImagePreview, generatedImage, isLoading, error,
             loadingMessage, selectedStyle, customPrompt>>

-----------------------------------------------------------------------------
(* Bounds of the model *)

MaxPendingReads == 2
MaxTriggers == 2
MaxParts == 2

-----------------------------------------------------------------------------
(* Values *)

NULL == [null |-> TRUE]

Str(cs) == [chars |-> cs]

Concat(s, t) == Str(s.chars \o t.chars)

\* JavaScript truthiness of a (string | File | null) value
Truthy(v) == v # NULL /\ v # Str(<<>>)

IsWhitespace(c) == c \in {" ", "\t", "\n"}

RECURSIVE TrimStartSeq(_)
TrimStartSeq(cs) ==
    IF cs # <<>> /\ IsWhitespace(Head(cs)) THEN TrimStartSeq(Tail(cs)) ELSE cs

RECURSIVE TrimEndSeq(_)
TrimEndSeq(cs) ==
    IF cs # <<>> /\ IsWhitespace(cs[Len(cs)])
    THEN TrimEndSeq(SubSeq(cs, 1, Len(cs) - 1))
    ELSE cs

\* String.prototype.trim
Trim(s) == Str(TrimEndSeq(TrimStartSeq(s.chars)))

\* String.prototype.indexOf for a one-token needle, as a 1-based position (0: absent)
RECURSIVE IndexFrom(_, _, _)
IndexFrom(cs, c, i) ==
    IF i > Len(cs) THEN 0
    ELSE IF cs[i] = c THEN i
    ELSE IndexFrom(cs, c, i + 1)

IndexOf(s, c) == IndexFrom(s.chars, c, 1)

-----------------------------------------------------------------------------
(* The imported catalogues of ./constants *)

LOADING_MESSAGES == << Str(<<"Warming up">>), Str(<<"Painting">>), Str(<<"Finishing">>) >>

STYLES == << [id |-> "renaissance", prompt |-> Str(<<"o", "i", "l">>)],
             [id |-> "anime",       prompt |-> Str(<<"i", "n", "k">>)] >>

StyleSet == {STYLES[i] : i \in 1..Len(STYLES)}

\* What the user may type into the free-text box
CustomPrompts == {Str(<<>>), Str(<<" ", "s", " ">>)}

-----------------------------------------------------------------------------
(* Candidates the user may hand to the uploader *)

MiB == 1024 * 1024

maxSize == 10 * 1024 * 1024

allowedTypes == {"image/jpeg", "image/png", "image/webp", "image/heic"}

FileA      == [name |-> "a.jpg", type |-> "image/jpeg", size |-> 2 * MiB]
FileB      == [name |-> "b.png", type |-> "image/png",  size |-> maxSize]
FileGif    == [name |-> "c.gif", type |-> "image/gif",  size |-> 1 * MiB]
FileBig    == [name |-> "d.png", type |-> "image/png",  size |-> maxSize + 1]
FileBigGif == [name |-> "e.gif", type |-> "image/gif",  size |-> 15 * MiB]

Candidates == {FileA, FileB, FileGif, FileBig, FileBigGif}

\* The base64 text FileReader produces for the bytes of a file
Base64Of(file) ==
    CASE file.name = "a.jpg" -> "QUFB"
      [] file.name = "b.png" -> "QkJC"
      [] file.name = "c.gif" -> "Q0ND"
      [] file.name = "d.png" -> "RERE"
      [] OTHER               -> "RUVF"

\* FileReader.readAsDataURL: "data:" + type + ";base64," + base64
readAsDataURL(file) ==
    Str(<<"d", "a", "t", "a", ":", file.type, ";", "base64", ",", Base64Of(file)>>)

\* String.prototype.substring(from, to) with 0-based from (inclusive), to (exclusive)
Substring(s, from, to) == Str(SubSeq(s.chars, from + 1, to))

\* String.prototype.split(sep)[1]: the text between the first and the second sep
SplitSecond(s, sep) ==
    LET first == IndexFrom(s.chars, sep, 1)
        next  == IF first = 0 THEN 0 ELSE IndexFrom(s.chars, sep, first + 1)
    IN  IF first = 0 THEN NULL
        ELSE IF next = 0 THEN Str(SubSeq(s.chars, first + 1, Len(s.chars)))
        ELSE Str(SubSeq(s.chars, first + 1, next - 1))

\* (mutant) the payload is taken from the wrong side of the comma
fileToBase64_WrongSplit(file) ==
    LET result == readAsDataURL(file)
    IN  [data       |-> Substring(result, 0, IndexOf(result, ",") - 1),
         mimeType   |-> Substring(result, 5, IndexOf(result, ";") - 1),
         previewUrl |-> result]

\* fileToBase64, reader.onload: what the promise resolves to
fileToBase64(file) ==
    LET result == readAsDataURL(file)
    IN  [data       |-> SplitSecond(result, ","),
         mimeType   |-> Substring(result, 5, IndexOf(result, ";") - 1),
         previewUrl |-> result]

-----------------------------------------------------------------------------
(* ImageUploader.tsx: validation *)

UnsupportedTypeMessage(type) ==
    Str(<<"Unsupported file type: ", type,
          ". Please upload a JPEG, PNG, WEBP or HEIC image.">>)

FileSizeMessage == Str(<<"File size exceeds 10MB. Please upload a smaller image.">>)

\* (mutant) the media type is not looked at
handleFileValidation_NoTypeCheck(file) ==
    IF file = NULL THEN [ok |-> FALSE, setError |-> NULL]
    ELSE IF file.size > maxSize
         THEN [ok |-> FALSE, setError |-> FileSizeMessage]
    ELSE [ok |-> TRUE, setError |-> NULL]

\* (mutant) the size is not looked at
handleFileValidation_NoSizeCheck(file) ==
    IF file = NULL THEN [ok |-> FALSE, setError |-> NULL]
    ELSE IF file.type \notin allowedTypes
         THEN [ok |-> FALSE, setError |-> UnsupportedTypeMessage(file.type)]
    ELSE [ok |-> TRUE, setError |-> NULL]

\* (mutant) a file of exactly the ceiling is rejected
handleFileValidation_SizeInclusive(file) ==
    IF file = NULL THEN [ok |-> FALSE, setError |-> NULL]
    ELSE IF file.type \notin allowedTypes
         THEN [ok |-> FALSE, setError |-> UnsupportedTypeMessage(file.type)]
    ELSE IF file.size >= maxSize
         THEN [ok |-> FALSE, setError |-> FileSizeMessage]
    ELSE [ok |-> TRUE, setError |-> NULL]

\* handleFileValidation: the boolean it returns and the message it hands to
\* setError (NULL: setError is not called)
handleFileValidation(file) ==
    IF file = NULL THEN [ok |-> FALSE, setError |-> NULL]
    ELSE IF file.type \notin allowedTypes
         THEN [ok |-> FALSE, setError |-> UnsupportedTypeMessage(file.type)]
    ELSE IF file.size > maxSize
         THEN [ok |-> FALSE, setError |-> FileSizeMessage]
    ELSE [ok |-> TRUE, setError |-> NULL]

-----------------------------------------------------------------------------
(* geminiService.ts: the generation client *)

Payloads == {"SU1HMQ", "SU1HMg"}

TextPart == [inlineData |-> NULL]

ImagePart(p) == [inlineData |-> [data |-> Str(<<p>>)]]

PartKinds == {TextPart} \cup {ImagePart(p) : p \in Payloads}

\* the payload an image part carries at position i of a list: neighbouring
\* image parts carry different payloads
PayloadAt(i) == IF i % 2 = 1 THEN "SU1HMQ" ELSE "SU1HMg"

\* every list of up to MaxParts parts, each a text part or an image part
PartLists ==
    UNION {{ps \in [1..n -> PartKinds] :
               \A i \in 1..n : ps[i] \in {TextPart, ImagePart(PayloadAt(i))}}
           : n \in 0..MaxParts}

CauseText == Str(<<"quota exceeded">>)

\* the text of a thrown value that is no Error (a rejected string)
OtherCauseText == Str(<<"timeout">>)

\* What ai.models.generateContent may do: resolve with a list of parts (no
\* candidates reads as the empty list), reject with an Error, or reject with a
\* value that is no Error
Responses ==
    {[kind |-> "parts", parts |-> ps] : ps \in PartLists}
    \cup {[kind |-> "throwError", message |-> CauseText],
          [kind |-> "throwOther", value |-> OtherCauseText]}

EmptyResponseMessage ==
    Str(<<"API did not return an image. ", "The prompt may have been blocked",
          " or the response was empty.">>)

FailedPrefix == Str(<<"Failed to generate portrait: ">>)

UnknownErrorMessage ==
    Str(<<"An unknown error occurred while generating the portrait.">>)

\* (mutant) the loop keeps going and the last part with inlineData wins
RECURSIVE FirstInlineData_Last(_)
FirstInlineData_Last(parts) ==
    IF parts = <<>> THEN NULL
    ELSE IF FirstInlineData_Last(Tail(parts)) # NULL THEN FirstInlineData_Last(Tail(parts))
    ELSE IF Head(parts).inlineData # NULL THEN Head(parts).inlineData.data
    ELSE NULL

\* the loop over the parts: the data of the first part with inlineData, or NULL
RECURSIVE FirstInlineData(_)
FirstInlineData(parts) ==
    IF parts = <<>> THEN NULL
    ELSE IF Head(parts).inlineData # NULL THEN Head(parts).inlineData.data
    ELSE FirstInlineData(Tail(parts))

\* (mutant) the catch block throws the generic error for everything it catches
CatchAndRethrow_DropsMessage(thrown) ==
    [ok |-> FALSE, isError |-> TRUE, message |-> UnknownErrorMessage]

\* (mutant) the catch block throws what it caught
CatchAndRethrow_Rethrows(thrown) ==
    IF thrown.isError
    THEN [ok |-> FALSE, isError |-> TRUE, message |-> thrown.message]
    ELSE [ok |-> FALSE, isError |-> FALSE, message |-> NULL]

\* the catch block: what generatePortrait throws for a value thrown in its try block
CatchAndRethrow(thrown) ==
    IF thrown.isError
    THEN [ok |-> FALSE, isError |-> TRUE, message |-> Concat(FailedPrefix, thrown.message)]
    ELSE [ok |-> FALSE, isError |-> TRUE, message |-> UnknownErrorMessage]

\* generatePortrait: its outcome for a behaviour of the remote call
generatePortrait(response) ==
    IF response.kind = "throwError"
        THEN CatchAndRethrow([isError |-> TRUE, message |-> response.message])
    ELSE IF response.kind = "throwOther"
        THEN CatchAndRethrow([isError |-> FALSE, value |-> response.value])
    ELSE LET found == FirstInlineData(response.parts)
         IN  IF found # NULL
             THEN [ok |-> TRUE, value |-> found]
             ELSE CatchAndRethrow([isError |-> TRUE, message |-> EmptyResponseMessage])

-----------------------------------------------------------------------------
(* App.tsx: what renderContent puts on the page *)

\* the ImageUploader is returned while there is no preview
UploaderRendered == ~Truthy(originalImagePreview)

\* the style buttons and the free-text box
StylePanelRendered ==
    Truthy(originalImagePreview) /\ ~isLoading /\ ~Truthy(generatedImage)

\* the Generate Portrait button
GenerateButtonRendered ==
    Truthy(originalImagePreview) /\ ~isLoading /\ ~Truthy(generatedImage)

\* (mutant) the button stays on the page, enabled, while a generation runs
GenerateButtonEnabled_WhileLoading ==
    Truthy(originalImagePreview) /\ ~Truthy(generatedImage)

\* a click reaches handleGenerate: the button is rendered and not disabled
GenerateButtonEnabled == GenerateButtonRendered /\ ~isLoading

\* the Download and Start Over buttons
ResultButtonsRendered ==
    Truthy(originalImagePreview) /\ Truthy(generatedImage) /\ ~isLoading

\* the error banner with its close button
ErrorBannerRendered == Truthy(error)

-----------------------------------------------------------------------------
(* App.tsx: state and handlers *)

ReadFailedMessage == Str(<<"Failed to read image file.">>)

UnexpectedErrorMessage == Str(<<"An unexpected error occurred.">>)

DataUrlPngPrefix == Str(<<"d", "a", "t", "a", ":", "image/png", ";", "base64", ",">>)

DownloadName == "ai_portrait.png"

Event(op, result) == [op |-> op, result |-> result, response |-> NULL]

\* the settling of generatePortrait, with what the remote call did
RemoteEvent(result, response) == [op |-> "remote", result |-> result, response |-> response]

Init ==
    /\ originalFile = NULL
    /\ originalImagePreview = NULL
    /\ generatedImage = NULL
    /\ isLoading = FALSE
    /\ error = NULL
    /\ loadingMessage = LOADING_MESSAGES[1]
    /\ selectedStyle = STYLES[1]
    /\ customPrompt = Str(<<>>)
    /\ timer = [active |-> FALSE, messageIndex |-> 0]
    /\ reads = EmptyBag
    /\ gens = {}
    /\ triggers = 0
    /\ calls = 0
    /\ download = NULL
    /\ lastEvent = Event("init", "none")

\* (mutant) the effect returns no cleanup: the interval outlives the loading state
useEffectTimer_NoCleanup(newLoading) ==
    IF newLoading /\ ~isLoading THEN [active |-> TRUE, messageIndex |-> 0] ELSE timer

\* (mutant) messageIndex lives outside the effect and is never set back to 0
useEffectTimer_KeepsIndex(newLoading) ==
    IF newLoading = isLoading THEN timer
    ELSE [active |-> newLoading, messageIndex |-> timer.messageIndex]

\* the effect on [isLoading]: entering the loading state starts an interval with
\* messageIndex 0, leaving it runs the cleanup that clears the interval
useEffectTimer(newLoading) ==
    IF newLoading = isLoading THEN timer
    ELSE IF newLoading THEN [active |-> TRUE, messageIndex |-> 0]
    ELSE [active |-> FALSE, messageIndex |-> 0]

\* the interval callback
TimerTick ==
    /\ timer.active
    /\ LET messageIndex == (timer.messageIndex + 1) % Len(LOADING_MESSAGES)
       IN  /\ timer' = [timer EXCEPT !.messageIndex = messageIndex]
           /\ loadingMessage' = LOADING_MESSAGES[messageIndex + 1]
    /\ lastEvent' = Event("tick", "none")
    /\ UNCHANGED <<originalFile, originalImagePreview, generatedImage, isLoading, error,
                   selectedStyle, customPrompt, reads, gens, triggers, calls, download>>

\* handleImageSelect up to its await: the candidate is stored and its read begins
handleImageSelect(file) ==
    /\ originalFile' = file
    /\ error' = NULL
    /\ reads' = reads (+) SetToBag({file})

\* (mutant) an event without a file puts a message on the error channel
HandleFile_ErrorOnAbsent(op, file) ==
    /\ UploaderRendered
    /\ LET v == handleFileValidation(file)
       IN  IF file # NULL /\ v.ok
           THEN /\ BagCardinality(reads) < MaxPendingReads
                /\ handleImageSelect(file)
                /\ lastEvent' = Event(op, "accepted")
           ELSE /\ error' = IF file = NULL THEN Str(<<"No file selected.">>)
                            ELSE IF v.setError # NULL THEN v.setError ELSE error
                /\ lastEvent' = Event(op, IF file = NULL THEN "nofile" ELSE "rejected")
                /\ UNCHANGED <<originalFile, reads>>
    /\ UNCHANGED <<originalImagePreview, generatedImage, isLoading, loadingMessage,
                   selectedStyle, customPrompt, timer, gens, triggers, calls, download>>

\* handleFileChange and handleDrop: file is the first file of the event, or NULL
HandleFile(op, file) ==
    /\ UploaderRendered
    /\ LET v == handleFileValidation(file)
       IN  IF file # NULL /\ v.ok
           THEN /\ BagCardinality(reads) < MaxPendingReads
                /\ handleImageSelect(file)
                /\ lastEvent' = Event(op, "accepted")
           ELSE /\ error' = IF file # NULL /\ v.setError # NULL THEN v.setError ELSE error
                /\ lastEvent' = Event(op, IF file = NULL THEN "nofile" ELSE "rejected")
                /\ UNCHANGED <<originalFile, reads>>
    /\ UNCHANGED <<originalImagePreview, generatedImage, isLoading, loadingMessage,
                   selectedStyle, customPrompt, timer, gens, triggers, calls, download>>

handleFileChange == \E file \in Candidates \cup {NULL} : HandleFile("fileChange", file)

handleDrop == \E file \in Candidates \cup {NULL} : HandleFile("drop", file)

\* handleImageSelect after its await: the read of one selected file settles
ReadSettled ==
    \E file \in BagToSet(reads), ok \in BOOLEAN :
        /\ reads' = reads (-) SetToBag({file})
        /\ IF ok
           THEN /\ originalImagePreview' = fileToBase64(file).previewUrl
                /\ lastEvent' = Event("read", "ok")
                /\ UNCHANGED <<originalFile, error>>
           ELSE /\ error' = ReadFailedMessage
                /\ originalFile' = NULL
                /\ lastEvent' = Event("read", "failed")
                /\ UNCHANGED originalImagePreview
        /\ UNCHANGED <<generatedImage, isLoading, loadingMessage, selectedStyle,
                       customPrompt, timer, gens, triggers, calls, download>>

\* the close button of the error banner
DismissError ==
    /\ ErrorBannerRendered
    /\ error' = NULL
    /\ lastEvent' = Event("dismiss", "none")
    /\ UNCHANGED <<originalFile, originalImagePreview, generatedImage, isLoading,
                   loadingMessage, selectedStyle, customPrompt, timer, reads, gens,
                   triggers, calls, download>>

\* a style button
SelectStyle ==
    /\ StylePanelRendered
    /\ \E style \in StyleSet : selectedStyle' = style
    /\ lastEvent' = Event("style", "none")
    /\ UNCHANGED <<originalFile, originalImagePreview, generatedImage, isLoading, error,
                   loadingMessage, customPrompt, timer, reads, gens, triggers, calls, download>>

\* the free-text box
EditCustomPrompt ==
    /\ StylePanelRendered
    /\ \E text \in CustomPrompts : customPrompt' = text
    /\ lastEvent' = Event("prompt", "none")
    /\ UNCHANGED <<originalFile, originalImagePreview, generatedImage, isLoading, error,
                   loadingMessage, selectedStyle, timer, reads, gens, triggers, calls, download>>

\* the template literal and trim that make finalPrompt
finalPrompt(style, text) == Trim(Concat(Concat(style.prompt, Str(<<" ">>)), text))

\* handleGenerate up to its first await
handleGenerate ==
    /\ triggers' = triggers + 1
    /\ IF originalFile = NULL
       THEN /\ lastEvent' = Event("generate", "nofile")
            /\ UNCHANGED <<isLoading, error, generatedImage, loadingMessage, timer, gens>>
       ELSE /\ isLoading' = TRUE
            /\ error' = NULL
            /\ generatedImage' = NULL
            /\ loadingMessage' = LOADING_MESSAGES[1]
            /\ timer' = useEffectTimer(TRUE)
            /\ gens' = gens \cup {[id           |-> triggers + 1,
                                   file         |-> originalFile,
                                   style        |-> selectedStyle,
                                   customPrompt |-> customPrompt,
                                   phase        |-> "encode",
                                   request      |-> NULL]}
            /\ lastEvent' = Event("generate", "started")
    /\ UNCHANGED <<originalFile, originalImagePreview, selectedStyle, customPrompt,
                   reads, calls, download>>

\* the user presses where the Generate Portrait button is: handleGenerate runs
\* when the button is there to take the click
ClickGenerate ==
    IF GenerateButtonEnabled
    THEN /\ triggers < MaxTriggers
         /\ handleGenerate
    ELSE /\ lastEvent' = Event("generate", "ignored")
         /\ UNCHANGED <<originalFile, originalImagePreview, generatedImage, isLoading,
                        error, loadingMessage, selectedStyle, customPrompt, timer,
                        reads, gens, triggers, calls, download>>

\* (mutant) setIsLoading(false) is reached only when generatePortrait was called:
\* a failed read runs the catch and leaves the loading state on
EncodeSettled_NoFinally ==
    \E g \in gens, ok \in BOOLEAN :
        /\ g.phase = "encode"
        /\ IF ok
           THEN LET encoded == fileToBase64(g.file)
                IN  /\ calls' = calls + 1
                    /\ gens' = (gens \ {g}) \cup
                          {[g EXCEPT !.phase = "remote",
                                     !.request = [base64ImageData |-> encoded.data,
                                                  mimeType        |-> encoded.mimeType,
                                                  prompt          |-> finalPrompt(g.style, g.customPrompt)]]}
                    /\ lastEvent' = Event("encode", "ok")
                    /\ UNCHANGED error
           ELSE /\ error' = UnexpectedErrorMessage
                /\ gens' = gens \ {g}
                /\ lastEvent' = Event("encode", "failed")
                /\ UNCHANGED calls
        /\ UNCHANGED <<originalFile, originalImagePreview, generatedImage, loadingMessage,
                       selectedStyle, customPrompt, reads, triggers, download,
                       isLoading, timer>>

\* handleGenerate after its first await: the read of the captured file settles;
\* on success generatePortrait is called, on failure the catch and finally run
EncodeSettled ==
    \E g \in gens, ok \in BOOLEAN :
        /\ g.phase = "encode"
        /\ IF ok
           THEN LET encoded == fileToBase64(g.file)
                IN  /\ calls' = calls + 1
                    /\ gens' = (gens \ {g}) \cup
                          {[g EXCEPT !.phase = "remote",
                                     !.request = [base64ImageData |-> encoded.data,
                                                  mimeType        |-> encoded.mimeType,
                                                  prompt          |-> finalPrompt(g.style, g.customPrompt)]]}
                    /\ lastEvent' = Event("encode", "ok")
                    /\ UNCHANGED <<error, isLoading, timer>>
           ELSE /\ error' = UnexpectedErrorMessage
                /\ isLoading' = FALSE
                /\ timer' = useEffectTimer(FALSE)
                /\ gens' = gens \ {g}
                /\ lastEvent' = Event("encode", "failed")
                /\ UNCHANGED calls
        /\ UNCHANGED <<originalFile, originalImagePreview, generatedImage, loadingMessage,
                       selectedStyle, customPrompt, reads, triggers, download>>

\* (mutant) a failed attempt calls generatePortrait again by itself
RemoteSettled_RetriesOnFailure ==
    \E g \in gens, response \in Responses :
        /\ g.phase = "remote"
        /\ LET outcome == generatePortrait(response)
           IN  IF outcome.ok
               THEN /\ generatedImage' = Concat(DataUrlPngPrefix, outcome.value)
                    /\ lastEvent' = RemoteEvent("ok", response)
                    /\ isLoading' = FALSE
                    /\ timer' = useEffectTimer(FALSE)
                    /\ gens' = gens \ {g}
                    /\ UNCHANGED <<error, calls>>
               ELSE /\ calls' = calls + 1
                    /\ lastEvent' = RemoteEvent("failed", response)
                    /\ UNCHANGED <<generatedImage, error, isLoading, timer, gens>>
        /\ UNCHANGED <<originalFile, originalImagePreview, loadingMessage, selectedStyle,
                       customPrompt, reads, triggers, download>>

\* handleGenerate after its second await: generatePortrait settles
RemoteSettled ==
    \E g \in gens, response \in Responses :
        /\ g.phase = "remote"
        /\ LET outcome == generatePortrait(response)
           IN  IF outcome.ok
               THEN /\ generatedImage' = Concat(DataUrlPngPrefix, outcome.value)
                    /\ lastEvent' = RemoteEvent("ok", response)
                    /\ UNCHANGED error
               ELSE /\ error' = IF outcome.isError THEN outcome.message
                                ELSE UnexpectedErrorMessage
                    /\ lastEvent' = RemoteEvent("failed", response)
                    /\ UNCHANGED generatedImage
        /\ isLoading' = FALSE
        /\ timer' = useEffectTimer(FALSE)
        /\ gens' = gens \ {g}
        /\ UNCHANGED <<originalFile, originalImagePreview, loadingMessage, selectedStyle,
                       customPrompt, reads, triggers, calls, download>>

\* (mutant) the free-text box is not cleared
handleReset_KeepsCustomPrompt ==
    /\ originalFile' = NULL
    /\ originalImagePreview' = NULL
    /\ generatedImage' = NULL
    /\ isLoading' = FALSE
    /\ error' = NULL
    /\ selectedStyle' = STYLES[1]
    /\ timer' = useEffectTimer(FALSE)
    /\ lastEvent' = Event("reset", "none")
    /\ UNCHANGED <<customPrompt, loadingMessage, reads, gens, triggers, calls, download>>

handleReset ==
    /\ originalFile' = NULL
    /\ originalImagePreview' = NULL
    /\ generatedImage' = NULL
    /\ isLoading' = FALSE
    /\ error' = NULL
    /\ selectedStyle' = STYLES[1]
    /\ customPrompt' = Str(<<>>)
    /\ timer' = useEffectTimer(FALSE)
    /\ lastEvent' = Event("reset", "none")
    /\ UNCHANGED <<loadingMessage, reads, gens, triggers, calls, download>>

\* the Start Over button
ClickStartOver == ResultButtonsRendered /\ handleReset

handleDownload ==
    /\ IF ~Truthy(generatedImage)
       THEN UNCHANGED download
       ELSE download' = [href |-> generatedImage, download |-> DownloadName]
    /\ lastEvent' = Event("download", "none")
    /\ UNCHANGED <<originalFile, originalImagePreview, generatedImage, isLoading, error,
                   loadingMessage, selectedStyle, customPrompt, timer, reads, gens,
                   triggers, calls>>

\* the Download button
ClickDownload == ResultButtonsRendered /\ handleDownload

Next ==
    \/ handleFileChange
    \/ handleDrop
    \/ ReadSettled
    \/ DismissError
    \/ SelectStyle
    \/ EditCustomPrompt
    \/ ClickGenerate
    \/ EncodeSettled
    \/ RemoteSettled
    \/ ClickStartOver
    \/ ClickDownload
    \/ TimerTick

Spec == Init /\ [][Next]_vars

\* The awaits of handleGenerate settle: the read of the file and the remote call
\* each complete or fail in the end
SpecAwaitsSettle == Spec /\ WF_vars(EncodeSettled) /\ WF_vars(RemoteSettled)

\* The reset transition of section 4.5 of the specification (available from any
\* state) where the page offers no way to it and a remote call is outstanding:
\* handleReset run while the session is Generating and generatePortrait pending
ResetWhileCallOutstanding ==
    /\ isLoading
    /\ \E g \in gens : g.phase = "remote"
    /\ handleReset

NextResetWhileGenerating == Next \/ ResetWhileCallOutstanding

SpecResetWhileGenerating == Init /\ [][NextResetWhileGenerating]_vars

-----------------------------------------------------------------------------
(* Claims *)

\* the candidates inside the allow-list and the size ceiling
ValidCandidates == {f \in Candidates : f.type \in allowedTypes /\ f.size <= maxSize}

\* C1: at most one generation is in flight at a time, and a generate trigger
\* that fires while isLoading is true is a no-op: handleGenerate is not entered,
\* no generatePortrait call is issued and no session field changes.
C1_SingleGenerationInFlight ==
    /\ [](Cardinality(gens) <= 1 /\ (gens # {} => isLoading))
    /\ [][(isLoading /\ lastEvent'.op = "generate")
            => /\ UNCHANGED session
               /\ UNCHANGED <<gens, triggers, calls, timer>>
               /\ lastEvent'.result = "ignored"]_vars

C1_Witness ==
    /\ isLoading
    /\ lastEvent = Event("generate", "ignored")
    /\ \E g \in gens : g.phase = "remote"

C3_ResetEnabledEverywhere == ResultButtonsRendered

\* C4: the state right after handleReset is the initial state: no candidate, no
\* preview, no result, no error, not loading, the first style, empty free text.
C4_ResetYieldsInitialState ==
    lastEvent.op = "reset"
        => /\ originalFile = NULL
           /\ originalImagePreview = NULL
           /\ generatedImage = NULL
           /\ error = NULL
           /\ isLoading = FALSE
           /\ selectedStyle = STYLES[1]
           /\ customPrompt = Str(<<>>)

C4_Witness ==
    /\ lastEvent.op = "reset"
    /\ calls >= 1
    /\ originalFile = NULL
    /\ customPrompt = Str(<<>>)

\* C5: no error is fatal to the session: in every reachable state in which no
\* generation and no read is in progress, the user can select a file, or trigger
\* a generation that issues a request, or reset.
C5_NeverStuck ==
    (~isLoading /\ gens = {} /\ reads = EmptyBag)
        => \/ UploaderRendered
           \/ (GenerateButtonEnabled /\ originalFile # NULL)
           \/ ResultButtonsRendered

\* C6: when generatePortrait fails, the session is back in HasPreview with an
\* error: not loading, a non-empty error, no result, and the candidate, style and
\* free text of the attempt still in place, so that Generate is enabled again.
C6_FailureReturnsToHasPreview ==
    [][(lastEvent'.op = "remote" /\ lastEvent'.result = "failed")
         => /\ ~isLoading'
            /\ Truthy(error')
            /\ generatedImage' = NULL
            /\ originalImagePreview' = originalImagePreview
            /\ \E g \in gens \ gens' :
                   /\ originalFile' = g.file
                   /\ selectedStyle' = g.style
                   /\ customPrompt' = g.customPrompt
            /\ GenerateButtonEnabled'
            /\ originalFile' # NULL]_vars

\* C7: when generatePortrait returns a payload p, the session is in HasResult:
\* generatedImage is the png data URL of p, not loading, no error, the candidate
\* and preview unchanged, and Download is enabled.
C7_SuccessReachesHasResult ==
    [][(lastEvent'.op = "remote" /\ lastEvent'.result = "ok")
         => /\ \E p \in Payloads : generatedImage' = Concat(DataUrlPngPrefix, Str(<<p>>))
            /\ ~isLoading'
            /\ error' = NULL
            /\ originalImagePreview' = originalImagePreview
            /\ \E g \in gens \ gens' : originalFile' = g.file
            /\ ResultButtonsRendered']_vars

\* C8: the status-message timer exists only while isLoading is true, so it is
\* gone on every exit from Generating, and no tick happens outside Generating.
C8_TimerOnlyWhileGenerating ==
    /\ timer.active => isLoading
    /\ lastEvent.op = "tick" => isLoading

C8_Witness ==
    /\ ~isLoading
    /\ ~timer.active
    /\ lastEvent.op = "remote"
    /\ loadingMessage = LOADING_MESSAGES[3]

\* C9: every generatePortrait call is issued by the continuation of a successful
\* encoding, for a validated candidate and a style of the catalogue, with the
\* base64 payload and media type of that same candidate; a failed encoding
\* issues no call.
C9_RequestOnlyAfterEncoding ==
    /\ [](\A g \in gens :
            /\ g.file \in ValidCandidates
            /\ g.style \in StyleSet
            /\ g.phase = "encode" => g.request = NULL
            /\ g.phase = "remote" =>
                 /\ g.request.base64ImageData = Str(<<Base64Of(g.file)>>)
                 /\ g.request.mimeType = Str(<<g.file.type>>))
    /\ [][calls' # calls
            => /\ calls' = calls + 1
               /\ lastEvent' = Event("encode", "ok")
               /\ \E g \in gens, h \in gens' :
                      /\ g.phase = "encode" /\ h.phase = "remote"
                      /\ h.id = g.id /\ h.file = g.file]_vars

C9_Witness ==
    /\ calls = 2
    /\ \E g \in gens : g.phase = "remote" /\ g.file = FileB

\* C10: a candidate whose media type is outside the allow-list is rejected and
\* nothing but the error changes: onImageSelect is not called, and the candidate,
\* preview, result, loading flag and style keep their values.
C10_BadTypeLeavesStateUnchanged ==
    [][\A file \in Candidates :
          (file.type \notin allowedTypes
             /\ (HandleFile("fileChange", file) \/ HandleFile("drop", file)))
          => /\ UNCHANGED <<originalFile, originalImagePreview, generatedImage,
                            isLoading, selectedStyle, customPrompt, reads, gens, calls>>
             /\ error' = UnsupportedTypeMessage(file.type)
             /\ lastEvent'.result = "rejected"]_vars

C10_Witness ==
    /\ lastEvent = Event("drop", "rejected")
    /\ error = UnsupportedTypeMessage("image/gif")
    /\ originalFile = NULL
    /\ originalImagePreview = NULL

\* a handleFileChange or handleDrop step for this file
FileEvent(file) == HandleFile("fileChange", file) \/ HandleFile("drop", file)

\* the fields a rejected or absent candidate must leave alone
UploadFrame ==
    UNCHANGED <<originalFile, originalImagePreview, generatedImage, isLoading,
                selectedStyle, customPrompt, reads, gens, calls>>

\* C11 (as claimed): every candidate longer than 10 MiB, whatever its media type,
\* is rejected with the size-specific message, and the session is unchanged.
C11_OversizeGetsSizeMessage ==
    [][\A file \in Candidates :
          (file.size > 10 * MiB /\ FileEvent(file))
          => /\ error' = FileSizeMessage
             /\ lastEvent'.result = "rejected"
             /\ UploadFrame]_vars

\* C11 (amended): every candidate longer than 10 MiB is rejected and the session
\* is unchanged; the error is the size-specific message when the media type is in
\* the allow-list, and the unsupported-type message otherwise (the type is
\* checked first).
C11_OversizeRejected ==
    [][\A file \in Candidates :
          (file.size > 10 * MiB /\ FileEvent(file))
          => /\ error' = IF file.type \in {"image/jpeg", "image/png", "image/webp", "image/heic"}
                         THEN FileSizeMessage
                         ELSE UnsupportedTypeMessage(file.type)
             /\ lastEvent'.result = "rejected"
             /\ UploadFrame]_vars

C11_Witness ==
    /\ lastEvent = Event("fileChange", "rejected")
    /\ error = FileSizeMessage
    /\ originalFile = NULL

\* the media types and sizes validation is tried on
ValidationInputs ==
    [name : {"x"},
     type : {"image/jpeg", "image/png", "image/webp", "image/heic", "image/gif", ""},
     size : {0, 1, 10 * MiB - 1, 10 * MiB, 10 * MiB + 1, 15 * MiB}]

\* C12: validation accepts a candidate exactly when its media type is in the
\* allow-list and its length is at most 10 * 1024 * 1024 bytes; an accepted
\* candidate clears the error and is handed to onImageSelect exactly once.
C12_AcceptsExactlyValid ==
    /\ [](\A file \in ValidationInputs \cup Candidates :
            handleFileValidation(file).ok
              <=> /\ file.type \in {"image/jpeg", "image/png", "image/webp", "image/heic"}
                  /\ file.size <= 10 * 1024 * 1024)
    /\ [][\A file \in Candidates :
            FileEvent(file)
            => IF file.type \in {"image/jpeg", "image/png", "image/webp", "image/heic"}
                  /\ file.size <= 10 * 1024 * 1024
               THEN /\ lastEvent'.result = "accepted"
                    /\ error' = NULL
                    /\ originalFile' = file
                    /\ reads' = reads (+) SetToBag({file})
                    /\ BagCardinality(reads') = BagCardinality(reads) + 1
               ELSE /\ lastEvent'.result = "rejected"
                    /\ reads' = reads]_vars

C12_Witness ==
    /\ lastEvent = Event("fileChange", "accepted")
    /\ originalFile = FileB
    /\ FileB.size = 10 * 1024 * 1024
    /\ CopiesIn(FileB, reads) = 1
    /\ error = NULL

\* C13 (as claimed): an event that carries no file leaves a rejection reason on
\* the error channel.
C13_AbsentCandidateReported ==
    lastEvent.result = "nofile" => Truthy(error)

\* C13 (amended): an event that carries no file is ignored: validation is not
\* consulted, onImageSelect is not called, and no field changes, the error
\* included (an earlier error stays as it is).
C13_AbsentCandidateIgnored ==
    [][FileEvent(NULL)
         => /\ UNCHANGED session
            /\ UNCHANGED <<reads, gens, calls, triggers, timer, download>>
            /\ lastEvent'.result = "nofile"]_vars

C13_Witness ==
    /\ lastEvent = Event("drop", "nofile")
    /\ error = UnsupportedTypeMessage("image/gif")
    /\ originalFile = NULL

\* compose as the claim states it: the style prompt alone when the free text
\* is empty after trimming, else the style prompt, one space, the trimmed text
Compose(s, t) ==
    IF Trim(t) = Str(<<>>) THEN s ELSE Concat(Concat(s, Str(<<" ">>)), Trim(t))

\* C14: the prompt of every request sent to the generation client is the style
\* prompt when the free text is empty after trimming, and the style prompt, a
\* single space and the trimmed free text otherwise.
C14_PromptIsComposed ==
    \A g \in gens :
        g.phase = "remote" => g.request.prompt = Compose(g.style.prompt, g.customPrompt)

\* the positions of the parts that carry image data
ImagePositions(parts) == {i \in DOMAIN parts : parts[i].inlineData # NULL}

\* the remote call of the last step resolved with a list of parts
SettledWithParts == lastEvent.op = "remote" /\ lastEvent.response.kind = "parts"

\* C15: when the remote call resolves with a list of parts of which at least one
\* carries image data, generatePortrait returns the payload of the part at the
\* least such position, and that payload becomes the generated image.
C15_FirstImagePartReturned ==
    (SettledWithParts /\ ImagePositions(lastEvent.response.parts) # {})
    => LET parts == lastEvent.response.parts
           first == CHOOSE i \in ImagePositions(parts) :
                        \A j \in ImagePositions(parts) : i <= j
       IN  /\ lastEvent.result = "ok"
           /\ generatePortrait(lastEvent.response) =
                 [ok |-> TRUE, value |-> parts[first].inlineData.data]
           /\ generatedImage = Concat(DataUrlPngPrefix, parts[first].inlineData.data)

C15_Witness ==
    /\ SettledWithParts
    /\ lastEvent.response.parts = <<ImagePart("SU1HMQ"), ImagePart("SU1HMg")>>
    /\ generatedImage =
          Str(<<"d", "a", "t", "a", ":", "image/png", ";", "base64", ",", "SU1HMQ">>)

\* s holds the text t
ContainsText(s, t) ==
    \E i \in 0..(Len(s.chars) - Len(t.chars)) :
        SubSeq(s.chars, i + 1, i + Len(t.chars)) = t.chars

\* C16: when the remote call resolves and no part carries image data (an empty
\* list included), generatePortrait fails with an error whose message says that
\* the prompt may have been blocked, and that message, as generatePortrait threw
\* it, is the current error; no image is stored.
C16_EmptyResponseSurfaced ==
    (SettledWithParts /\ ImagePositions(lastEvent.response.parts) = {})
    => /\ lastEvent.result = "failed"
       /\ ~generatePortrait(lastEvent.response).ok
       /\ error = generatePortrait(lastEvent.response).message
       /\ error = Str(<<"Failed to generate portrait: ", "API did not return an image. ",
                        "The prompt may have been blocked", " or the response was empty.">>)
       /\ ContainsText(error, Str(<<"The prompt may have been blocked">>))
       /\ generatedImage = NULL

C16_Witness ==
    /\ lastEvent = RemoteEvent("failed", [kind |-> "parts", parts |-> <<>>])
    /\ ContainsText(error, Str(<<"The prompt may have been blocked">>))
    /\ ~isLoading

\* the remote call of the last step threw
RemoteCallThrew ==
    lastEvent.op = "remote" /\ lastEvent.response.kind \in {"throwError", "throwOther"}

\* the text of what the remote call threw
ThrownText(response) ==
    IF response.kind = "throwError" THEN response.message ELSE response.value

\* C17 (as claimed): whatever the remote call throws, an Error or another value,
\* the current error includes the text of the thrown cause.
C17_CauseTextAlwaysShown ==
    RemoteCallThrew
    => /\ lastEvent.result = "failed"
       /\ ContainsText(error, ThrownText(lastEvent.response))

\* C17 (amended): when the remote call throws an Error, the current error is
\* "Failed to generate portrait: " followed by the Error's message; when it
\* throws a value that is no Error, the current error is the generic
\* unknown-error message, which does not include the text of the thrown value.
C17_ErrorCauseShown ==
    RemoteCallThrew
    => /\ lastEvent.result = "failed"
       /\ generatedImage = NULL
       /\ IF lastEvent.response.kind = "throwError"
          THEN /\ error = Concat(Str(<<"Failed to generate portrait: ">>),
                                 lastEvent.response.message)
               /\ ContainsText(error, lastEvent.response.message)
          ELSE /\ error = Str(<<"An unknown error occurred while generating the portrait.">>)
               /\ ~ContainsText(error, lastEvent.response.value)

C17_Witness ==
    /\ lastEvent = RemoteEvent("failed", [kind |-> "throwError", message |-> CauseText])
    /\ error = Str(<<"Failed to generate portrait: ", "quota exceeded">>)
    /\ ~isLoading

\* C18: whenever the read of the candidate fails, at selection or at the
\* re-encoding of a triggered generation, the error is the generic failed-to-read
\* message, the candidate is discarded, and no request goes out for it.
C18_ReadFailureDiscardsCandidate ==
    (lastEvent = Event("read", "failed") \/ lastEvent = Event("encode", "failed"))
    => /\ error = Str(<<"Failed to read image file.">>)
       /\ originalFile = NULL
       /\ \A g \in gens : g.phase # "remote"

\* the generations that have not made their call yet
AwaitingEncode == {g \in gens : g.phase = "encode"}

\* C19: the calls made, together with the generations still to make theirs, never
\* exceed the user's triggers; a call is made only by a generation that has not
\* made one; and when an attempt settles, its generation is over and no call is
\* made, so a further call needs a further trigger.
C19_NoAutomaticRetry ==
    /\ [](calls + Cardinality(AwaitingEncode) <= triggers)
    /\ [][calls' # calls
            => /\ calls' = calls + 1
               /\ Cardinality(AwaitingEncode') = Cardinality(AwaitingEncode) - 1]_vars
    /\ [][lastEvent'.op = "remote"
            => /\ calls' = calls
               /\ Cardinality(gens') = Cardinality(gens) - 1
               /\ AwaitingEncode' = AwaitingEncode]_vars
    /\ [][(gens = {} /\ triggers' = triggers) => calls' = calls]_vars

C19_Witness ==
    /\ lastEvent.op = "remote"
    /\ lastEvent.result = "failed"
    /\ triggers = 2
    /\ calls = 2
    /\ gens = {}
    /\ Truthy(error)

\* the position of a status message in the list, counted from 0
MessagePosition(m) ==
    CHOOSE i \in 0..(Len(LOADING_MESSAGES) - 1) : LOADING_MESSAGES[i + 1] = m

\* C20: the status message is the first of the list when a generation starts,
\* every tick moves it to the next of the list, the first following the last, and
\* nothing else changes it while the generation lasts; so after the k-th tick of
\* a generation it is the message at position k mod N, in every generation.
C20_StatusMessageCycles ==
    /\ [](lastEvent = Event("generate", "started")
            => loadingMessage = LOADING_MESSAGES[1] /\ isLoading)
    /\ [][lastEvent'.op = "tick"
            => /\ isLoading
               /\ loadingMessage' =
                    LOADING_MESSAGES[((MessagePosition(loadingMessage) + 1)
                                         % Len(LOADING_MESSAGES)) + 1]]_vars
    /\ [][(isLoading /\ isLoading' /\ lastEvent'.op # "tick")
            => loadingMessage' = loadingMessage]_vars

C20_Witness ==
    /\ lastEvent.op = "tick"
    /\ triggers = 2
    /\ isLoading
    /\ loadingMessage = LOADING_MESSAGES[1]
    /\ timer.messageIndex = 0

\* the data URL a successful read of the file gives
EncodingOf(file) ==
    Str(<<"d", "a", "t", "a", ":", file.type, ";", "base64", ",", Base64Of(file)>>)

\* C21: whenever a preview is displayed, a candidate is held and the preview is
\* the encoding of that candidate, also when a second file is selected while the
\* read of the first is still outstanding.
C21_PreviewIsOfCandidate ==
    Truthy(originalImagePreview)
    => /\ originalFile # NULL
       /\ originalImagePreview = EncodingOf(originalFile)

\* C22: the session never holds a generation result and an error together.
C22_NeverResultAndError ==
    ~(Truthy(generatedImage) /\ Truthy(error))

\* C23: provided the read of the file and the remote call each complete or fail
\* in the end, every state in which the session is Generating is followed by one
\* in which it is not, and in which a result or an error is set or a reset has
\* just been done.
C23_GenerationEnds ==
    isLoading ~> (/\ ~isLoading
                  /\ \/ Truthy(generatedImage)
                     \/ Truthy(error)
                     \/ lastEvent.op = "reset")

C23_Witness ==
    /\ lastEvent = Event("encode", "failed")
    /\ ~isLoading
    /\ ~timer.active
    /\ gens = {}
    /\ error = Str(<<"An unexpected error occurred.">>)

====
